---- MODULE Spec2Model ----
(***************************************************************************)
(* State-machine model of the session recording engine, class              *)
(* SessionManager (src/unnamed/part_001).                                  *)
(*                                                                         *)
(* JavaScript runs one task at a time and an async method runs without     *)
(* interruption from one await to the next.  Every action below is one     *)
(* such run-to-suspension segment: a public call up to its first await on  *)
(* an external service, or the continuation that runs when a service call  *)
(* (storage insert, metadata call, timer) returns.  An await on a promise  *)
(* that is already settled (flushBuffer returning at its flag check) is    *)
(* continued in the same segment.                                          *)
(*                                                                         *)
(* A sensor record is [session_id, device_id, timestamp, uid]; the         *)
(* thirteen payload fields data[2..14] are copied through unchanged by the *)
(* code and are left out, as is sessionStartTime, which nothing reads; uid *)
(* stands for the identity of the record object.                           *)
(* Timestamps are integers in milliseconds (0.02 s = 20).                  *)
(***************************************************************************)
EXTENDS Integers, Sequences, FiniteSets, TLC

----------------------------------------------------------------------------
(* Bounds of the model.  chunkSize, maxWaitAttempts and maxFlushAttempts   *)
(* are 10, 100 and 10 in the source and are scaled down here, keeping      *)
(* every branch that compares against them reachable.  The others bound    *)
(* what the environment does in a run.                                     *)
chunkSize == 2
maxWaitAttempts == 2
maxFlushAttempts == 2
MaxNow == 1
MaxAccepted == 3
MaxSessions == 1
EndSlots == 2

(* Program constants. *)
timestampInterval == 20
RequiredFields == 15

NULL == 0
NoPlayer == "null"

(* Inputs of the environment. *)
BufferSizes == {2, 3}
FlushIntervals == {1}
SessionIds == {1, 2}
OneDevice == <<[playerId |-> "p1", deviceId |-> "1"]>>
TwoDevices == <<[playerId |-> "p1", deviceId |-> "1"],
               [playerId |-> "p1", deviceId |-> "2"]>>
NoPlayerDevice == <<[playerId |-> "", deviceId |-> "1"]>>
ValidData == [id : {1}, raw : {7}, length : {15}]
ShortData == [id : {1}, raw : {7}, length : {10, 14}]
ForeignData == [id : {0, 2}, raw : {7}, length : {15}]

VARIABLES
  bufferSize,                 \* this.bufferSize, set by the constructor
  flushInterval,              \* this.flushInterval, set by the constructor
  sessionId,                  \* this.sessionId (NULL = null)
  playerId,                   \* this.playerId
  isRecording,                \* this.isRecording
  dataBuffer,                 \* this.dataBuffer, the active buffer
  pendingBuffer,              \* this.pendingBuffer
  isFlushingBuffer,           \* this.isFlushingBuffer, the single-flight flag
  lastFlushTime,              \* this.lastFlushTime
  totalPointsReceived,        \* this.totalPointsReceived
  firstTimestampMap,          \* this.firstTimestampMap
  lastNormalizedTimestampMap, \* this.lastNormalizedTimestampMap
  expectedDeviceIds,          \* this.expectedDeviceIds
  now,                        \* Date.now()
  flushes,                    \* flushBuffer invocations suspended on a storage call
  ends,                       \* endSession invocations, by slot
  starts,                     \* startSession / useExistingSession invocations awaiting metadata
  ingests,                    \* addSensorData invocations awaiting getAllPlayers
  nextSessionId,              \* metadata service: id of the next created session
  stored,                     \* storage: records persisted, in order
  storageLog,                 \* storage: insert calls issued, in order
  lost,                       \* records whose single insert failed (logged)
  log,                        \* console.error reports of endSession
  updateIssued,               \* sessions whose end-time update has been issued
  accepted,                   \* records for which addSensorData returned true
  autoFlushes,                \* flushes started by addSensorData
  inits,                      \* initializeSession and useExistingSession calls made
  inSession,                  \* a session was started and no endSession has completed since
  acceptedAtEnd,              \* Len(accepted) when endSession was last called on a session
  flushReport,                \* the completion report logged by the last finished flush
  ret                         \* what the last step returned to its caller

vars == <<bufferSize, flushInterval, sessionId, playerId, isRecording,
          dataBuffer, pendingBuffer,
          isFlushingBuffer, lastFlushTime, totalPointsReceived,
          firstTimestampMap, lastNormalizedTimestampMap, expectedDeviceIds,
          now, flushes, ends, starts, ingests, nextSessionId, stored,
          storageLog, lost, log, updateIssued, accepted, autoFlushes,
          inits, inSession, acceptedAtEnd, flushReport, ret>>

----------------------------------------------------------------------------
(* The state as one record, so that a handler and the calls it makes       *)
(* compose as functions on it.                                             *)
Cur ==
  [sessionId |-> sessionId, playerId |-> playerId, isRecording |-> isRecording,
   dataBuffer |-> dataBuffer, pendingBuffer |-> pendingBuffer,
   isFlushingBuffer |-> isFlushingBuffer, lastFlushTime |-> lastFlushTime,
   totalPointsReceived |-> totalPointsReceived,
   firstTimestampMap |-> firstTimestampMap,
   lastNormalizedTimestampMap |-> lastNormalizedTimestampMap,
   expectedDeviceIds |-> expectedDeviceIds, now |-> now, flushes |-> flushes,
   ends |-> ends, starts |-> starts, ingests |-> ingests,
   nextSessionId |-> nextSessionId, stored |-> stored,
   storageLog |-> storageLog, lost |-> lost, log |-> log,
   updateIssued |-> updateIssued, accepted |-> accepted,
   autoFlushes |-> autoFlushes, inits |-> inits, inSession |-> inSession,
   acceptedAtEnd |-> acceptedAtEnd, flushReport |-> flushReport, ret |-> ret]

Commit(s) ==
  /\ sessionId' = s.sessionId
  /\ playerId' = s.playerId
  /\ isRecording' = s.isRecording
  /\ dataBuffer' = s.dataBuffer
  /\ pendingBuffer' = s.pendingBuffer
  /\ isFlushingBuffer' = s.isFlushingBuffer
  /\ lastFlushTime' = s.lastFlushTime
  /\ totalPointsReceived' = s.totalPointsReceived
  /\ firstTimestampMap' = s.firstTimestampMap
  /\ lastNormalizedTimestampMap' = s.lastNormalizedTimestampMap
  /\ expectedDeviceIds' = s.expectedDeviceIds
  /\ now' = s.now
  /\ flushes' = s.flushes
  /\ ends' = s.ends
  /\ starts' = s.starts
  /\ ingests' = s.ingests
  /\ nextSessionId' = s.nextSessionId
  /\ stored' = s.stored
  /\ storageLog' = s.storageLog
  /\ lost' = s.lost
  /\ log' = s.log
  /\ updateIssued' = s.updateIssued
  /\ accepted' = s.accepted
  /\ autoFlushes' = s.autoFlushes
  /\ inits' = s.inits
  /\ inSession' = s.inSession
  /\ acceptedAtEnd' = s.acceptedAtEnd
  /\ flushReport' = s.flushReport
  /\ UNCHANGED <<bufferSize, flushInterval>>
  /\ ret' = s.ret

EmptyMap == [k \in {} |-> 0]
MapHas(m, k) == k \in DOMAIN m
MapSet(m, k, v) == [x \in (DOMAIN m) \cup {k} |-> IF x = k THEN v ELSE m[x]]
Includes(seq, x) == \E i \in 1..Len(seq) : seq[i] = x
Falsy(p) == p \in {NoPlayer, ""}
Min(a, b) == IF a < b THEN a ELSE b

NoRet == [op |-> "none", ok |-> TRUE, id |-> NULL, err |-> ""]
Returned(name, okv, idv, e) == [op |-> name, ok |-> okv, id |-> idv, err |-> e]

NoReport == [totalSuccess |-> 0, total |-> 0, first |-> 1, last |-> 0]
IdleEnd == [pc |-> "idle", sessionId |-> NULL, waitAttempts |-> 0, attempt |-> 0]
RemoveAt(seq, k) == [i \in 1..(Len(seq) - 1) |-> IF i < k THEN seq[i] ELSE seq[i + 1]]

----------------------------------------------------------------------------
(* normalizeTimestamp *)

\* mutant: one clock shared by all devices, as before the per-device maps
SharedClockKey(deviceId) == "shared"

\* the key under which a device's clock state is kept in the two maps
ClockKey(deviceId) == deviceId

\* mutant: toFixed(1), one decimal place
ToFixed1(ms) == ((ms + 50) \div 100) * 100

\* Number.prototype.toFixed(2) followed by parseFloat, on milliseconds:
\* round to the nearest hundredth of a second.
ToFixed2(ms) == ((ms + 5) \div 10) * 10

normalizeTimestamp(s, deviceId, rawTimestamp) ==
  IF ~MapHas(s.firstTimestampMap, ClockKey(deviceId))
  THEN [state |-> [s EXCEPT
                     !.firstTimestampMap =
                        MapSet(@, ClockKey(deviceId), rawTimestamp),
                     !.lastNormalizedTimestampMap =
                        MapSet(@, ClockKey(deviceId), 0)],
        value |-> 0]
  ELSE LET lastNormalized ==
             (IF MapHas(s.lastNormalizedTimestampMap, ClockKey(deviceId))
              THEN s.lastNormalizedTimestampMap[ClockKey(deviceId)] ELSE 0)
             + timestampInterval
       IN [state |-> [s EXCEPT !.lastNormalizedTimestampMap =
                                  MapSet(@, ClockKey(deviceId), lastNormalized)],
           value |-> ToFixed2(lastNormalized)]

----------------------------------------------------------------------------
(* flushBuffer *)

\* mutant: flushBuffer without its single-flight check
NeverInProgress(s) == FALSE

\* the single-flight check at the entry of flushBuffer
FlushInProgress(s) == s.isFlushingBuffer

\* the chunk size written in flushBuffer
declaredChunkSize == 10

\* mutant: the slicing loop stops before a chunk that would be short
RECURSIVE sliceFromWholeOnly(_, _, _)
sliceFromWholeOnly(dataToFlush, size, i) ==
  IF i + size <= Len(dataToFlush)
  THEN <<SubSeq(dataToFlush, i + 1, Min(i + size, Len(dataToFlush)))>>
         \o sliceFromWholeOnly(dataToFlush, size, i + size)
  ELSE <<>>

\* the slicing loop from index i on: chunks.push(dataToFlush.slice(i, i + size))
\* while i < dataToFlush.length, i advancing by size
RECURSIVE sliceFrom(_, _, _)
sliceFrom(dataToFlush, size, i) ==
  IF i < Len(dataToFlush)
  THEN <<SubSeq(dataToFlush, i + 1, Min(i + size, Len(dataToFlush)))>>
         \o sliceFrom(dataToFlush, size, i + size)
  ELSE <<>>

\* the chunks of a snapshot, as the slicing loop builds them
Chunks(dataToFlush) ==
  [k \in 1..((Len(dataToFlush) + chunkSize - 1) \div chunkSize) |->
     SubSeq(dataToFlush, (k - 1) * chunkSize + 1,
            Min(k * chunkSize, Len(dataToFlush)))]

\* a storage call as issued; its outcome is filled in when it returns
BatchCall(chunk) == [kind |-> "batch", records |-> chunk, ok |-> "pending"]
SingleCall(record) == [kind |-> "single", records |-> <<record>>, ok |-> "pending"]
Outcome(ok) == IF ok THEN "ok" ELSE "failed"

\* mutant: the fallback loop walks the chunk backwards
FallbackReversed(chunk) == [i \in 1..Len(chunk) |-> chunk[Len(chunk) + 1 - i]]

\* the records the fallback loop submits one by one, in its order
FallbackRecords(chunk) == chunk

\* mutant: a call turned away by the single-flight check still records the
\* time of the flush
flushBufferBusyTouches(s, caller) ==
  IF FlushInProgress(s)
  THEN [state |-> [s EXCEPT !.lastFlushTime = s.now],
        suspended |-> FALSE, value |-> FALSE]
  ELSE IF Len(s.dataBuffer) = 0
  THEN IF Len(s.pendingBuffer) > 0
       THEN [state |-> [s EXCEPT !.dataBuffer = s.pendingBuffer,
                                  !.pendingBuffer = <<>>],
             suspended |-> FALSE, value |-> TRUE]
       ELSE [state |-> s, suspended |-> FALSE, value |-> FALSE]
  ELSE LET dataToFlush == s.dataBuffer
           task == [dataToFlush |-> dataToFlush, chunk |-> 1,
                    phase |-> "batch", record |-> 0, totalSuccess |-> 0,
                    caller |-> caller,
                    first |-> Len(s.storageLog) + 1,
                    call |-> Len(s.storageLog) + 1]
       IN [state |-> [s EXCEPT
                        !.isFlushingBuffer = TRUE,
                        !.dataBuffer = <<>>,
                        !.flushes = Append(@, task),
                        !.storageLog =
                           Append(@, BatchCall(Chunks(dataToFlush)[1]))],
           suspended |-> TRUE, value |-> TRUE]

\* mutant: with an empty active buffer flushBuffer returns false whatever
\* the pending buffer holds
flushBufferIgnoresPending(s, caller) ==
  IF FlushInProgress(s)
  THEN [state |-> s, suspended |-> FALSE, value |-> FALSE]
  ELSE IF Len(s.dataBuffer) = 0
  THEN [state |-> s, suspended |-> FALSE, value |-> FALSE]
  ELSE LET dataToFlush == s.dataBuffer
           task == [dataToFlush |-> dataToFlush, chunk |-> 1,
                    phase |-> "batch", record |-> 0, totalSuccess |-> 0,
                    caller |-> caller,
                    first |-> Len(s.storageLog) + 1,
                    call |-> Len(s.storageLog) + 1]
       IN [state |-> [s EXCEPT
                        !.isFlushingBuffer = TRUE,
                        !.dataBuffer = <<>>,
                        !.flushes = Append(@, task),
                        !.storageLog =
                           Append(@, BatchCall(Chunks(dataToFlush)[1]))],
           suspended |-> TRUE, value |-> TRUE]

\* mutant: the snapshot is taken and the active buffer is not emptied
flushBufferKeepsActive(s, caller) ==
  IF FlushInProgress(s)
  THEN [state |-> s, suspended |-> FALSE, value |-> FALSE]
  ELSE IF Len(s.dataBuffer) = 0
  THEN IF Len(s.pendingBuffer) > 0
       THEN [state |-> [s EXCEPT !.dataBuffer = s.pendingBuffer,
                                  !.pendingBuffer = <<>>],
             suspended |-> FALSE, value |-> TRUE]
       ELSE [state |-> s, suspended |-> FALSE, value |-> FALSE]
  ELSE LET dataToFlush == s.dataBuffer
           task == [dataToFlush |-> dataToFlush, chunk |-> 1,
                    phase |-> "batch", record |-> 0, totalSuccess |-> 0,
                    caller |-> caller,
                    first |-> Len(s.storageLog) + 1,
                    call |-> Len(s.storageLog) + 1]
       IN [state |-> [s EXCEPT
                        !.isFlushingBuffer = TRUE,
                        !.flushes = Append(@, task),
                        !.storageLog =
                           Append(@, BatchCall(Chunks(dataToFlush)[1]))],
           suspended |-> TRUE, value |-> TRUE]

\* flushBuffer from its entry to its first await (or to its return when it
\* returns without awaiting).  caller is 0 for the fire-and-forget call of
\* addSensorData and the slot of the awaiting endSession otherwise.
flushBuffer(s, caller) ==
  IF FlushInProgress(s)
  THEN [state |-> s, suspended |-> FALSE, value |-> FALSE]
  ELSE IF Len(s.dataBuffer) = 0
  THEN IF Len(s.pendingBuffer) > 0
       THEN [state |-> [s EXCEPT !.dataBuffer = s.pendingBuffer,
                                  !.pendingBuffer = <<>>],
             suspended |-> FALSE, value |-> TRUE]
       ELSE [state |-> s, suspended |-> FALSE, value |-> FALSE]
  ELSE LET dataToFlush == s.dataBuffer
           task == [dataToFlush |-> dataToFlush, chunk |-> 1,
                    phase |-> "batch", record |-> 0, totalSuccess |-> 0,
                    caller |-> caller,
                    first |-> Len(s.storageLog) + 1,
                    call |-> Len(s.storageLog) + 1]
       IN [state |-> [s EXCEPT
                        !.isFlushingBuffer = TRUE,
                        !.dataBuffer = <<>>,
                        !.flushes = Append(@, task),
                        !.storageLog =
                           Append(@, BatchCall(Chunks(dataToFlush)[1]))],
           suspended |-> TRUE, value |-> TRUE]

\* mutant: a snapshot with failed records is put back in front of the
\* active buffer
finishFlushRequeue(s, k) ==
  [s EXCEPT
     !.flushReport = [totalSuccess |-> s.flushes[k].totalSuccess,
                      total |-> Len(s.flushes[k].dataToFlush),
                      first |-> s.flushes[k].first,
                      last |-> Len(s.storageLog)],
     !.lastFlushTime = s.now,
     !.dataBuffer = (IF s.flushes[k].totalSuccess < Len(s.flushes[k].dataToFlush)
                     THEN s.flushes[k].dataToFlush ELSE <<>>)
                    \o s.dataBuffer \o s.pendingBuffer,
     !.pendingBuffer = <<>>,
     !.isFlushingBuffer = FALSE,
     !.flushes = RemoveAt(@, k)]

\* mutant: the finally block without the reset of the flag
finishFlushKeepsFlag(s, k) ==
  [s EXCEPT
     !.flushReport = [totalSuccess |-> s.flushes[k].totalSuccess,
                      total |-> Len(s.flushes[k].dataToFlush),
                      first |-> s.flushes[k].first,
                      last |-> Len(s.storageLog)],
     !.lastFlushTime = s.now,
     !.dataBuffer = IF Len(s.pendingBuffer) > 0
                    THEN s.dataBuffer \o s.pendingBuffer ELSE @,
     !.pendingBuffer = <<>>,
     !.flushes = RemoveAt(@, k)]

\* mutant: the finally block clears the flag and leaves the pending
\* records where they are
finishFlushLeavesPending(s, k) ==
  [s EXCEPT
     !.flushReport = [totalSuccess |-> s.flushes[k].totalSuccess,
                      total |-> Len(s.flushes[k].dataToFlush),
                      first |-> s.flushes[k].first,
                      last |-> Len(s.storageLog)],
     !.lastFlushTime = s.now,
     !.isFlushingBuffer = FALSE,
     !.flushes = RemoveAt(@, k)]

\* the try block's tail and the finally block of flushBuffer: runs when the
\* last storage call of the flush has returned
finishFlush(s, k) ==
  [s EXCEPT
     !.flushReport = [totalSuccess |-> s.flushes[k].totalSuccess,
                      total |-> Len(s.flushes[k].dataToFlush),
                      first |-> s.flushes[k].first,
                      last |-> Len(s.storageLog)],
     !.lastFlushTime = s.now,
     !.dataBuffer = IF Len(s.pendingBuffer) > 0
                    THEN s.dataBuffer \o s.pendingBuffer ELSE @,
     !.pendingBuffer = <<>>,
     !.isFlushingBuffer = FALSE,
     !.flushes = RemoveAt(@, k)]

----------------------------------------------------------------------------
(* endSession *)

\* mutant: endSession exits without its cleanup
ResetSkipped(s) == s

\* mutant: the reset clears the active buffer but not the pending buffer
ResetForgetsPending(s) ==
  [s EXCEPT
     !.isRecording = FALSE,
     !.sessionId = NULL,
     !.firstTimestampMap = EmptyMap,
     !.lastNormalizedTimestampMap = EmptyMap,
     !.expectedDeviceIds = <<>>,
     !.dataBuffer = <<>>,
     !.totalPointsReceived = 0]

\* mutant: the reset leaves the expected devices and their clocks
ResetKeepsDevices(s) ==
  [s EXCEPT
     !.isRecording = FALSE,
     !.sessionId = NULL,
     !.dataBuffer = <<>>,
     !.pendingBuffer = <<>>,
     !.totalPointsReceived = 0]

\* the state reset made on every exit of endSession
ResetState(s) ==
  [s EXCEPT
     !.isRecording = FALSE,
     !.sessionId = NULL,
     !.firstTimestampMap = EmptyMap,
     !.lastNormalizedTimestampMap = EmptyMap,
     !.expectedDeviceIds = <<>>,
     !.dataBuffer = <<>>,
     !.pendingBuffer = <<>>,
     !.totalPointsReceived = 0]

\* the final check after the flush loop and the call of updateSession
afterDrain(s, e) ==
  [s EXCEPT
     !.log = IF Len(s.dataBuffer) > 0 \/ Len(s.pendingBuffer) > 0
             THEN @ \cup {"dataLoss"} ELSE @,
     !.updateIssued = @ \cup {s.ends[e].sessionId},
     !.ends[e].pc = "update"]

\* mutant: endSession without its final flush loop
drainLoopNone(s, e, attempt) == afterDrain(s, e)

\* the final flush loop, entered with the attempts made so far; it leaves
\* the invocation suspended either in flushBuffer or in updateSession
RECURSIVE drainLoop(_, _, _)
drainLoop(s, e, attempt) ==
  IF attempt < maxFlushAttempts /\ Len(s.dataBuffer) > 0
  THEN LET r == flushBuffer(s, e)
       IN IF r.suspended
          THEN [r.state EXCEPT !.ends[e].pc = "flush",
                               !.ends[e].attempt = attempt + 1]
          ELSE drainLoop(r.state, e, attempt + 1)
  ELSE afterDrain([s EXCEPT !.ends[e].attempt = attempt], e)

\* the consolidation of pending records before the final flush loop
consolidatePending(s) ==
  IF Len(s.pendingBuffer) > 0
  THEN [s EXCEPT !.dataBuffer = @ \o s.pendingBuffer, !.pendingBuffer = <<>>]
  ELSE s

\* from the exit of the wait loop: timeout report, consolidation, flush loop
afterWait(s, e) ==
  LET s1 == IF s.isFlushingBuffer
            THEN [s EXCEPT !.log = @ \cup {"flushTimeout"}] ELSE s
  IN drainLoop(consolidatePending(s1), e, 0)

\* mutant: the wait loop without its bound on the attempts
waitLoopUnbounded(s, e) ==
  IF s.isFlushingBuffer
  THEN [s EXCEPT !.ends[e].pc = "wait"]
  ELSE afterWait(s, e)

\* one evaluation of the wait loop's condition
waitLoop(s, e) ==
  IF s.isFlushingBuffer /\ s.ends[e].waitAttempts < maxWaitAttempts
  THEN [s EXCEPT !.ends[e].waitAttempts = @ + 1, !.ends[e].pc = "wait"]
  ELSE afterWait(s, e)

\* the session check shared by addSensorData and endSession
NoSessionInProgress(s) == ~s.isRecording \/ s.sessionId = NULL

ActiveEnds(s) == {e \in 1..EndSlots : s.ends[e].pc # "idle"}
FreeSlot(s) == CHOOSE e \in 1..EndSlots :
                 /\ s.ends[e].pc = "idle"
                 /\ \A f \in 1..(e - 1) : s.ends[f].pc # "idle"

\* mutant: endSession without its early return
endSessionCallUnguarded(s) ==
  LET e == FreeSlot(s)
  IN waitLoop([s EXCEPT !.ends[e] = [pc |-> "wait",
                                     sessionId |-> s.sessionId,
                                     waitAttempts |-> 0,
                                     attempt |-> 0],
                        !.acceptedAtEnd = Len(s.accepted),
                        !.ret = NoRet], e)

\* endSession from its entry to its first await, or to its return when no
\* session is in progress
endSessionCall(s) ==
  IF NoSessionInProgress(s)
  THEN [ResetState(s) EXCEPT !.inSession = FALSE,
                             !.ret = Returned("endSession", TRUE, NULL, "")]
  ELSE LET e == FreeSlot(s)
       IN waitLoop([s EXCEPT !.ends[e] = [pc |-> "wait",
                                          sessionId |-> s.sessionId,
                                          waitAttempts |-> 0,
                                          attempt |-> 0],
                             !.acceptedAtEnd = Len(s.accepted),
                             !.ret = NoRet], e)

\* a call of endSession, at most maxEnds invocations being in progress
endSession(maxEnds) ==
  /\ ~NoSessionInProgress(Cur) => Cardinality(ActiveEnds(Cur)) < maxEnds
  /\ Commit(endSessionCall(Cur))

\* the 50 ms timer of the wait loop fires
waitTimerFires(e) ==
  /\ ends[e].pc = "wait"
  /\ Commit(waitLoop([Cur EXCEPT !.ret = NoRet], e))

\* updateSession returns or throws: either way the state is reset and the
\* session id read at that moment is returned
updateSessionReturns(e, ok) ==
  /\ ends[e].pc = "update"
  /\ LET finalSessionId == sessionId
     IN Commit([ResetState(Cur) EXCEPT
                  !.ends[e] = IdleEnd,
                  !.inSession = FALSE,
                  !.log = IF ok THEN @ ELSE @ \cup {"updateFailed"},
                  !.ret = Returned("endSession", TRUE, finalSessionId, "")])

----------------------------------------------------------------------------
(* the storage calls of a flush return *)

\* after a chunk is done: the next chunk's batch insert, or the end of the
\* flush, which resumes the endSession that awaits it
nextChunk(s, k) ==
  LET t == s.flushes[k]
      chunks == Chunks(t.dataToFlush)
  IN IF t.chunk < Len(chunks)
     THEN [s EXCEPT !.flushes[k].chunk = t.chunk + 1,
                    !.flushes[k].phase = "batch",
                    !.flushes[k].record = 0,
                    !.flushes[k].call = Len(s.storageLog) + 1,
                    !.storageLog = Append(@, BatchCall(chunks[t.chunk + 1]))]
     ELSE LET f == finishFlush(s, k)
          IN IF t.caller # 0
             THEN drainLoop(f, t.caller, f.ends[t.caller].attempt)
             ELSE f

insertSensorDataBatchReturns(k, ok) ==
  /\ k \in DOMAIN flushes
  /\ flushes[k].phase = "batch"
  /\ LET t == flushes[k]
         chunk == Chunks(t.dataToFlush)[t.chunk]
         s == [Cur EXCEPT !.ret = NoRet,
                          !.storageLog[t.call].ok = Outcome(ok)]
     IN IF ok
        THEN Commit(nextChunk([s EXCEPT
                                 !.stored = @ \o chunk,
                                 !.flushes[k].totalSuccess = @ + Len(chunk)],
                              k))
        ELSE Commit([s EXCEPT !.flushes[k].phase = "single",
                              !.flushes[k].record = 1,
                              !.flushes[k].call = Len(s.storageLog) + 1,
                              !.storageLog =
                                 Append(@, SingleCall(FallbackRecords(chunk)[1]))])

insertSensorDataReturns(k, ok) ==
  /\ k \in DOMAIN flushes
  /\ flushes[k].phase = "single"
  /\ LET t == flushes[k]
         chunk == FallbackRecords(Chunks(t.dataToFlush)[t.chunk])
         record == chunk[t.record]
         s0 == [Cur EXCEPT !.ret = NoRet,
                           !.storageLog[t.call].ok = Outcome(ok)]
         s == IF ok
              THEN [s0 EXCEPT !.stored = Append(@, record),
                              !.flushes[k].totalSuccess = @ + 1]
              ELSE [s0 EXCEPT !.lost = Append(@, record)]
     IN IF t.record < Len(chunk)
        THEN Commit([s EXCEPT !.flushes[k].record = t.record + 1,
                              !.flushes[k].call = Len(s.storageLog) + 1,
                              !.storageLog =
                                 Append(@, SingleCall(chunk[t.record + 1]))])
        ELSE Commit(nextChunk(s, k))

----------------------------------------------------------------------------
(* addSensorData *)

\* String(data[0] || 'unknown')
DeviceIdOf(id) == IF id = 0 THEN "unknown" ELSE ToString(id)

\* mutant: no expected-device check
NeverUnexpected(s, deviceId) == FALSE

\* mutant: a controller that expects no device takes every device
UnexpectedUnlessNoneExpected(s, deviceId) ==
  /\ s.expectedDeviceIds # <<>>
  /\ ~Includes(s.expectedDeviceIds, deviceId)

\* the expected-device check
Unexpected(s, deviceId) == ~Includes(s.expectedDeviceIds, deviceId)

\* mutant: the shape check off by one
TooShortOffByOne(data) == data.length < RequiredFields - 1

\* the check of the record's shape
TooShort(data) == data.length < RequiredFields

\* mutant: the size trigger with > for >=
ShouldFlushStrict(s) ==
  \/ Len(s.dataBuffer) > bufferSize
  \/ (s.now - s.lastFlushTime) >= flushInterval

\* mutant: the size trigger alone
ShouldFlushSizeOnly(s) == Len(s.dataBuffer) >= bufferSize

\* mutant: the time trigger alone
ShouldFlushTimeOnly(s) == (s.now - s.lastFlushTime) >= flushInterval

\* the flush triggers, evaluated after an append to the active buffer
ShouldFlush(s) ==
  \/ Len(s.dataBuffer) >= bufferSize
  \/ (s.now - s.lastFlushTime) >= flushInterval

\* mutant: addSensorData reports the failures of the flushes so far
AcceptedIfStored(s) ==
  IF s.lost = <<>>
  THEN Returned("addSensorData", TRUE, NULL, "")
  ELSE Returned("addSensorData", FALSE, NULL, "Error adding sensor data")

\* the return of addSensorData after the record is buffered
Accepted(s) == Returned("addSensorData", TRUE, NULL, "")

\* mutant: the record goes to the active buffer whether or not a flush is
\* in progress
appendRecordToActive(s, deviceId, raw) ==
  LET rawTimestamp == IF raw # 0 THEN raw ELSE s.now
      n == normalizeTimestamp(s, deviceId, rawTimestamp)
      sensorData == [session_id |-> s.sessionId, device_id |-> deviceId,
                     timestamp |-> n.value, uid |-> Len(s.accepted) + 1]
      s1 == [n.state EXCEPT !.totalPointsReceived = @ + 1,
                            !.accepted = Append(@, sensorData),
                            !.ret = Accepted(s)]
      s2 == [s1 EXCEPT !.dataBuffer = Append(@, sensorData)]
  IN IF ShouldFlush(s2)
     THEN LET r == flushBuffer(s2, 0)
          IN [r.state EXCEPT !.autoFlushes = IF r.suspended THEN @ + 1 ELSE @]
     ELSE s2

\* mutant: the record is put in front of the active buffer
appendRecordInFront(s, deviceId, raw) ==
  LET rawTimestamp == IF raw # 0 THEN raw ELSE s.now
      n == normalizeTimestamp(s, deviceId, rawTimestamp)
      sensorData == [session_id |-> s.sessionId, device_id |-> deviceId,
                     timestamp |-> n.value, uid |-> Len(s.accepted) + 1]
      s1 == [n.state EXCEPT !.totalPointsReceived = @ + 1,
                            !.accepted = Append(@, sensorData),
                            !.ret = Accepted(s)]
  IN IF s1.isFlushingBuffer
     THEN [s1 EXCEPT !.pendingBuffer = Append(@, sensorData)]
     ELSE LET s2 == [s1 EXCEPT !.dataBuffer = <<sensorData>> \o @]
          IN IF ShouldFlush(s2)
             THEN LET r == flushBuffer(s2, 0)
                  IN [r.state EXCEPT !.autoFlushes =
                                        IF r.suspended THEN @ + 1 ELSE @]
             ELSE s2

\* addSensorData from the raw timestamp on: normalize, count, build the
\* record, append it to the pending or the active buffer and start a flush
\* when a trigger holds.  The record's session id is read here, after a
\* possible await on getAllPlayers.
appendRecord(s, deviceId, raw) ==
  LET rawTimestamp == IF raw # 0 THEN raw ELSE s.now
      n == normalizeTimestamp(s, deviceId, rawTimestamp)
      sensorData == [session_id |-> s.sessionId, device_id |-> deviceId,
                     timestamp |-> n.value, uid |-> Len(s.accepted) + 1]
      s1 == [n.state EXCEPT !.totalPointsReceived = @ + 1,
                            !.accepted = Append(@, sensorData),
                            !.ret = Accepted(s)]
  IN IF s1.isFlushingBuffer
     THEN [s1 EXCEPT !.pendingBuffer = Append(@, sensorData)]
     ELSE LET s2 == [s1 EXCEPT !.dataBuffer = Append(@, sensorData)]
          IN IF ShouldFlush(s2)
             THEN LET r == flushBuffer(s2, 0)
                  IN [r.state EXCEPT !.autoFlushes =
                                        IF r.suspended THEN @ + 1 ELSE @]
             ELSE s2

\* return false, with the reason that is logged
Rejected(s, why) == [s EXCEPT !.ret = Returned("addSensorData", FALSE, NULL, why)]

addSensorDataCall(s, data) ==
  IF NoSessionInProgress(s)
  THEN Rejected(s, "No session in progress")
  ELSE LET deviceId == DeviceIdOf(data.id)
       IN IF Unexpected(s, deviceId)
          THEN Rejected(s, "unexpected device")
          ELSE IF TooShort(data)
          THEN Rejected(s, "Invalid data format")
          ELSE IF Falsy(s.playerId)
          THEN [s EXCEPT !.ingests = Append(@, [deviceId |-> deviceId,
                                                raw |-> data.raw]),
                         !.ret = NoRet]
          ELSE appendRecord(s, deviceId, data.raw)

\* a call of addSensorData: any call that is rejected, and others while at
\* most maxAccepted records have been taken in
addSensorData(data, maxAccepted) ==
  LET s == addSensorDataCall(Cur, data)
  IN /\ (s.ret.op = "none" \/ s.ret.ok) =>
           /\ Len(accepted) + Len(ingests) < maxAccepted
           /\ ingests = <<>>
     /\ Commit(s)

\* getAllPlayers returns a player list, an empty list, or throws
getAllPlayersReturns(k, outcome) ==
  /\ k \in DOMAIN ingests
  /\ LET call == ingests[k]
         s == [Cur EXCEPT !.ingests = RemoveAt(@, k)]
     IN IF outcome = "players"
        THEN Commit(appendRecord(s, call.deviceId, call.raw))
        ELSE Commit(Rejected(s, "No players"))

----------------------------------------------------------------------------
(* startSession, useExistingSession, initializeSession, setPlayerId *)

DeviceIdsOf(mappings) == [i \in 1..Len(mappings) |-> mappings[i].deviceId]
FirstPlayerOf(mappings) ==
  IF Len(mappings) > 0 THEN mappings[1].playerId ELSE NoPlayer

\* mutant: startSession without its guard
NeverAlreadyInProgress(s) == FALSE

\* the guard of startSession and useExistingSession
SessionAlreadyInProgress(s) == s.isRecording

\* mutant: startSession marks the session as recording before it awaits
\* createSession
startSessionCallEager(s, mappings) ==
  IF s.isRecording
  THEN [s EXCEPT !.ret = Returned("startSession", FALSE, NULL,
                                  "Session already in progress")]
  ELSE [s EXCEPT !.isRecording = TRUE,
                 !.expectedDeviceIds = [i \in 1..Len(mappings) |->
                                          mappings[i].deviceId],
                 !.starts = Append(@, [op |-> "startSession",
                                        pc |-> "createSession",
                                        mappings |-> mappings,
                                        sessionId |-> NULL]),
                 !.ret = NoRet]

\* startSession up to its await of createSession
startSessionCall(s, mappings) ==
  IF SessionAlreadyInProgress(s)
  THEN [s EXCEPT !.ret = Returned("startSession", FALSE, NULL,
                                  "Session already in progress")]
  ELSE [s EXCEPT !.starts = Append(@, [op |-> "startSession",
                                        pc |-> "createSession",
                                        mappings |-> mappings,
                                        sessionId |-> NULL]),
                 !.ret = NoRet]

\* a call of startSession, at most maxStarts invocations being in progress
\* and at most maxSessions sessions being created in a run
startSession(mappings, maxStarts, maxSessions) ==
  /\ ~SessionAlreadyInProgress(Cur) =>
       /\ Len(starts) < maxStarts
       /\ nextSessionId + Len(starts) <= maxSessions
  /\ Commit(startSessionCall(Cur, mappings))

createSessionReturns(k, ok) ==
  /\ k \in DOMAIN starts
  /\ starts[k].pc = "createSession"
  /\ IF ok
     THEN Commit([Cur EXCEPT
                    !.nextSessionId = @ + 1,
                    !.sessionId = nextSessionId,
                    !.isRecording = TRUE,
                    !.dataBuffer = <<>>,
                    !.lastFlushTime = now,
                    !.totalPointsReceived = 0,
                    !.firstTimestampMap = EmptyMap,
                    !.lastNormalizedTimestampMap = EmptyMap,
                    !.expectedDeviceIds = DeviceIdsOf(starts[k].mappings),
                    !.playerId = FirstPlayerOf(starts[k].mappings),
                    !.starts[k].pc = "addSessionPlayersBatch",
                    !.inSession = TRUE,
                    !.ret = NoRet])
     ELSE Commit([Cur EXCEPT
                    !.starts = RemoveAt(@, k),
                    !.ret = Returned("startSession", FALSE, NULL,
                                     "Failed to start session")])

\* addSessionPlayersBatch returns or throws (a failure is only logged); the
\* session id returned is read at this moment
addSessionPlayersBatchReturns(k, ok) ==
  /\ k \in DOMAIN starts
  /\ starts[k].pc = "addSessionPlayersBatch"
  /\ Commit([Cur EXCEPT
               !.starts = RemoveAt(@, k),
               !.ret = IF sessionId = NULL
                       THEN Returned("startSession", FALSE, NULL,
                                     "Failed to start session")
                       ELSE Returned("startSession", TRUE, sessionId, "")])

useExistingSession(id, maxStarts, maxInits) ==
  IF SessionAlreadyInProgress(Cur)
  THEN Commit([Cur EXCEPT !.ret = Returned("useExistingSession", FALSE, NULL,
                                           "Session already in progress")])
  ELSE /\ Len(starts) < maxStarts
       /\ inits < maxInits
       /\ Commit([Cur EXCEPT
                    !.starts = Append(@, [op |-> "useExistingSession",
                                           pc |-> "getSessionById",
                                           mappings |-> <<>>,
                                           sessionId |-> id]),
                    !.inits = @ + 1,
                    !.ret = NoRet])

\* getSessionById returns the session, returns null, or throws
getSessionByIdReturns(k, outcome) ==
  /\ k \in DOMAIN starts
  /\ starts[k].pc = "getSessionById"
  /\ IF outcome = "session"
     THEN Commit([Cur EXCEPT
                    !.sessionId = starts[k].sessionId,
                    !.isRecording = TRUE,
                    !.dataBuffer = <<>>,
                    !.lastFlushTime = now,
                    !.totalPointsReceived = 0,
                    !.firstTimestampMap = EmptyMap,
                    !.lastNormalizedTimestampMap = EmptyMap,
                    !.starts = RemoveAt(@, k),
                    !.inSession = TRUE,
                    !.ret = Returned("useExistingSession", TRUE,
                                     starts[k].sessionId, "")])
     ELSE Commit([Cur EXCEPT
                    !.starts = RemoveAt(@, k),
                    !.ret = Returned("useExistingSession", FALSE, NULL,
                                     "Failed to use existing session")])

\* mutant: initializeSession resets what startSession resets
initializeSessionKeepsPending(id, mappings, maxInits) ==
  /\ inits < maxInits
  /\ Commit([Cur EXCEPT
               !.sessionId = id,
               !.isRecording = TRUE,
               !.dataBuffer = <<>>,
               !.lastFlushTime = now,
               !.totalPointsReceived = 0,
               !.firstTimestampMap = EmptyMap,
               !.lastNormalizedTimestampMap = EmptyMap,
               !.expectedDeviceIds = DeviceIdsOf(mappings),
               !.playerId = FirstPlayerOf(mappings),
               !.inits = @ + 1,
               !.inSession = TRUE,
               !.ret = Returned("initializeSession", TRUE, NULL, "")])

\* initializeSession: synchronous, without guard and without storage call
initializeSession(id, mappings, maxInits) ==
  /\ inits < maxInits
  /\ Commit([Cur EXCEPT
               !.sessionId = id,
               !.isRecording = TRUE,
               !.dataBuffer = <<>>,
               !.pendingBuffer = <<>>,
               !.lastFlushTime = now,
               !.totalPointsReceived = 0,
               !.firstTimestampMap = EmptyMap,
               !.lastNormalizedTimestampMap = EmptyMap,
               !.expectedDeviceIds = DeviceIdsOf(mappings),
               !.playerId = FirstPlayerOf(mappings),
               !.inits = @ + 1,
               !.inSession = TRUE,
               !.ret = Returned("initializeSession", TRUE, NULL, "")])

setPlayerId(p) ==
  /\ playerId # p
  /\ Commit([Cur EXCEPT !.playerId = p, !.ret = NoRet])

\* time passes
Tick(maxNow) ==
  /\ now < maxNow
  /\ Commit([Cur EXCEPT !.now = @ + 1, !.ret = NoRet])

----------------------------------------------------------------------------
(* The state after construction. *)
Fields ==
  /\ sessionId = NULL
  /\ playerId = NoPlayer
  /\ isRecording = FALSE
  /\ dataBuffer = <<>>
  /\ pendingBuffer = <<>>
  /\ isFlushingBuffer = FALSE
  /\ lastFlushTime = 0
  /\ totalPointsReceived = 0
  /\ firstTimestampMap = EmptyMap
  /\ lastNormalizedTimestampMap = EmptyMap
  /\ expectedDeviceIds = <<>>
  /\ now = 0
  /\ flushes = <<>>
  /\ ends = [e \in 1..EndSlots |-> IdleEnd]
  /\ starts = <<>>
  /\ ingests = <<>>
  /\ nextSessionId = 1
  /\ stored = <<>>
  /\ storageLog = <<>>
  /\ lost = <<>>
  /\ log = {}
  /\ updateIssued = {}
  /\ accepted = <<>>
  /\ autoFlushes = 0
  /\ inits = 0
  /\ inSession = FALSE
  /\ acceptedAtEnd = 0
  /\ flushReport = NoReport
  /\ ret = NoRet

Init ==
  /\ bufferSize \in BufferSizes
  /\ flushInterval \in FlushIntervals
  /\ Fields

\* the service calls in flight return
StorageReturns ==
  \/ \E k \in 1..EndSlots, ok \in BOOLEAN : insertSensorDataBatchReturns(k, ok)
  \/ \E k \in 1..EndSlots, ok \in BOOLEAN : insertSensorDataReturns(k, ok)

MetadataReturns ==
  \/ \E ok \in BOOLEAN : createSessionReturns(1, ok)
  \/ \E ok \in BOOLEAN : addSessionPlayersBatchReturns(1, ok)
  \/ \E e \in 1..EndSlots, ok \in BOOLEAN : updateSessionReturns(e, ok)

(* One recording session of one device, with or without a player id:     *)
(* records arrive, time passes, storage and metadata calls succeed or     *)
(* fail, endSession is called at any moment.                               *)
Next ==
  \/ \E data \in ValidData \cup ShortData \cup ForeignData :
       addSensorData(data, MaxAccepted)
  \/ \E mappings \in {<<>>, OneDevice, NoPlayerDevice} : startSession(mappings, 1, MaxSessions)
  \/ endSession(1)
  \/ \E e \in 1..EndSlots : waitTimerFires(e)
  \/ StorageReturns
  \/ MetadataReturns
  \/ \E outcome \in {"players", "none"} : getAllPlayersReturns(1, outcome)
  \/ Tick(MaxNow)

Spec == Init /\ [][Next]_vars

(* The constructor called with the smallest buffer.                       *)
InitSmall ==
  /\ bufferSize = 2
  /\ flushInterval = 1
  /\ Fields

(* One session in which endSession may be called again while an earlier   *)
(* call is still in progress.                                              *)
NextOverlap ==
  \/ \E data \in ValidData \cup ShortData \cup ForeignData :
       addSensorData(data, MaxAccepted)
  \/ \E mappings \in {<<>>, OneDevice} : startSession(mappings, 1, MaxSessions)
  \/ endSession(EndSlots)
  \/ \E e \in 1..EndSlots : waitTimerFires(e)
  \/ StorageReturns
  \/ MetadataReturns
  \/ Tick(MaxNow)

SpecOverlap == InitSmall /\ [][NextOverlap]_vars

(* One session of two devices whose records carry different raw            *)
(* timestamps, arriving in any interleaving.                               *)
ClockData == [id : {1, 2}, raw : {0, 7}, length : {15}]
               \cup [id : {1}, raw : {7}, length : {14}]
               \cup [id : {0}, raw : {7}, length : {15}]

NextClock ==
  \/ \E data \in ClockData : addSensorData(data, MaxAccepted)
  \/ startSession(TwoDevices, 1, MaxSessions)
  \/ endSession(1)
  \/ \E e \in 1..EndSlots : waitTimerFires(e)
  \/ StorageReturns
  \/ MetadataReturns

SpecClock == InitSmall /\ [][NextClock]_vars

(* One session in which every call that an endSession invocation awaits   *)
(* returns: its 50 ms timer, the storage calls of the flush it awaits and  *)
(* its updateSession.  Nothing is assumed of the storage calls of a        *)
(* background flush.                                                       *)
NextLive ==
  \/ \E data \in ValidData : addSensorData(data, MaxAccepted)
  \/ startSession(OneDevice, 1, MaxSessions)
  \/ endSession(1)
  \/ \E e \in 1..EndSlots : waitTimerFires(e)
  \/ StorageReturns
  \/ MetadataReturns

\* a storage call of a flush that an endSession invocation awaits returns
AwaitedStorageReturns ==
  \E k \in 1..EndSlots, ok \in BOOLEAN :
    /\ k \in DOMAIN flushes
    /\ flushes[k].caller # 0
    /\ (insertSensorDataBatchReturns(k, ok) \/ insertSensorDataReturns(k, ok))

AwaitedReturn ==
  /\ \A e \in 1..EndSlots : WF_vars(waitTimerFires(e))
  /\ \A e \in 1..EndSlots : WF_vars(\E ok \in BOOLEAN : updateSessionReturns(e, ok))
  /\ WF_vars(AwaitedStorageReturns)

SpecLive == InitSmall /\ [][NextLive]_vars /\ AwaitedReturn

(* One session with both flush triggers, in which every storage call      *)
(* returns.                                                                *)
NextFlush ==
  \/ \E data \in ValidData : addSensorData(data, MaxAccepted)
  \/ startSession(OneDevice, 1, MaxSessions)
  \/ endSession(1)
  \/ \E e \in 1..EndSlots : waitTimerFires(e)
  \/ StorageReturns
  \/ MetadataReturns
  \/ Tick(MaxNow)

SpecFlush == InitSmall /\ [][NextFlush]_vars /\ WF_vars(StorageReturns)

(* A controller that is used again after endSession: one session more     *)
(* than in the other specifications, with or without a player id.          *)
NextReuse ==
  \/ \E data \in ValidData : addSensorData(data, MaxAccepted)
  \/ \E mappings \in {OneDevice, NoPlayerDevice} :
       startSession(mappings, 1, MaxSessions + 1)
  \/ endSession(1)
  \/ \E e \in 1..EndSlots : waitTimerFires(e)
  \/ StorageReturns
  \/ MetadataReturns
  \/ \E outcome \in {"players", "none"} : getAllPlayersReturns(1, outcome)

SpecReuse == InitSmall /\ [][NextReuse]_vars

(* A controller that is pointed at a session of the store with             *)
(* initializeSession, in any state: fresh, recording, ending, flushing.    *)
MaxInits == 2
InitializedSession == MaxSessions + 3
InitMappings == {<<>>, OneDevice, TwoDevices}

NextInitialize ==
  \/ \E data \in ValidData : addSensorData(data, MaxAccepted)
  \/ startSession(OneDevice, 1, MaxSessions)
  \/ \E mappings \in InitMappings :
       initializeSession(InitializedSession, mappings, MaxInits)
  \/ endSession(1)
  \/ \E e \in 1..EndSlots : waitTimerFires(e)
  \/ StorageReturns
  \/ MetadataReturns

SpecInitialize == InitSmall /\ [][NextInitialize]_vars

(* A controller on which startSession may be called again while earlier    *)
(* calls of it are still in progress.                                      *)
MaxStarts == 2

NextStarts ==
  \/ \E data \in ValidData : addSensorData(data, MaxAccepted)
  \/ \E mappings \in {OneDevice, TwoDevices} :
       startSession(mappings, MaxStarts, MaxSessions + 1)
  \/ \E k \in 1..MaxStarts, ok \in BOOLEAN : createSessionReturns(k, ok)
  \/ \E k \in 1..MaxStarts, ok \in BOOLEAN : addSessionPlayersBatchReturns(k, ok)
  \/ endSession(1)
  \/ \E e \in 1..EndSlots : waitTimerFires(e)
  \/ \E e \in 1..EndSlots, ok \in BOOLEAN : updateSessionReturns(e, ok)
  \/ StorageReturns

SpecStarts == InitSmall /\ [][NextStarts]_vars

(* A controller that adopts a session of the store with useExistingSession, *)
(* fresh, after a session of its own, or while a startSession is under way. *)
MaxExisting == 1
ExistingSession == MaxSessions + 2

NextExisting ==
  \/ \E data \in ValidData \cup ForeignData : addSensorData(data, MaxAccepted)
  \/ \E mappings \in {OneDevice, NoPlayerDevice} :
       startSession(mappings, MaxStarts, MaxSessions)
  \/ useExistingSession(ExistingSession, MaxStarts, MaxExisting)
  \/ \E k \in 1..MaxStarts, outcome \in {"session", "null", "throws"} :
       getSessionByIdReturns(k, outcome)
  \/ \E k \in 1..MaxStarts, ok \in BOOLEAN : createSessionReturns(k, ok)
  \/ \E k \in 1..MaxStarts, ok \in BOOLEAN : addSessionPlayersBatchReturns(k, ok)
  \/ endSession(1)
  \/ \E e \in 1..EndSlots : waitTimerFires(e)
  \/ \E e \in 1..EndSlots, ok \in BOOLEAN : updateSessionReturns(e, ok)
  \/ StorageReturns
  \/ getAllPlayersReturns(1, "players")

SpecExisting == InitSmall /\ [][NextExisting]_vars

(* flushBuffer as a function of the fields it reads: it is called once on *)
(* a controller in a session whose active and pending buffers hold any     *)
(* number of records up to MaxBuffered, with or without a flush in flight. *)
MaxBuffered == 5

\* the u-th record of device "1" in session 1
SensorRecord(u) ==
  [session_id |-> 1, device_id |-> "1",
   timestamp |-> ToFixed2((u - 1) * timestampInterval), uid |-> u]

\* the records first..last
SensorRecords(first, last) ==
  [i \in 1..(last - first + 1) |-> SensorRecord(first + i - 1)]

InitFlushOnce ==
  \E n \in 0..MaxBuffered, m \in 0..MaxBuffered, busy \in BOOLEAN :
    LET inFlight == IF busy THEN 1 ELSE 0
        task == [dataToFlush |-> SensorRecords(1, 1), chunk |-> 1,
                 phase |-> "batch", record |-> 0, totalSuccess |-> 0,
                 caller |-> 0, first |-> 1, call |-> 1]
    IN /\ bufferSize = MaxBuffered + 1
       /\ flushInterval = 1
       /\ sessionId = 1
       /\ playerId = "p1"
       /\ isRecording = TRUE
       /\ dataBuffer = SensorRecords(inFlight + 1, inFlight + n)
       /\ pendingBuffer = SensorRecords(inFlight + n + 1, inFlight + n + m)
       /\ isFlushingBuffer = busy
       /\ lastFlushTime = 0
       /\ totalPointsReceived = inFlight + n + m
       /\ firstTimestampMap = MapSet(EmptyMap, ClockKey("1"), 7)
       /\ lastNormalizedTimestampMap =
            MapSet(EmptyMap, ClockKey("1"),
                   (inFlight + n + m) * timestampInterval)
       /\ expectedDeviceIds = <<"1">>
       /\ now = 1
       /\ flushes = IF busy THEN <<task>> ELSE <<>>
       /\ ends = [e \in 1..EndSlots |-> IdleEnd]
       /\ starts = <<>>
       /\ ingests = <<>>
       /\ nextSessionId = 2
       /\ stored = <<>>
       /\ storageLog = IF busy THEN <<BatchCall(SensorRecords(1, 1))>> ELSE <<>>
       /\ lost = <<>>
       /\ log = {}
       /\ updateIssued = {}
       /\ accepted = SensorRecords(1, inFlight + n + m)
       /\ autoFlushes = inFlight
       /\ inits = 0
       /\ inSession = TRUE
       /\ acceptedAtEnd = 0
       /\ flushReport = NoReport
       /\ ret = NoRet

\* one call of flushBuffer, up to its first await or its return
flushBufferCalled ==
  /\ ret.op = "none"
  /\ LET r == flushBuffer(Cur, 0)
     IN Commit([r.state EXCEPT
                  !.ret = Returned("flushBuffer", r.value, NULL, "")])

NextFlushOnce ==
  \/ flushBufferCalled
  \/ StorageReturns

SpecFlushOnce == InitFlushOnce /\ [][NextFlushOnce]_vars

----------------------------------------------------------------------------
(* Properties *)

AnyData == [id : {0, 1, 2}, raw : {0, 7}, length : {10, 14, 15}]

\* the records of one device accepted in one session, in order of acceptance
AcceptedOf(sid, d) ==
  SelectSeq(accepted, LAMBDA r : r.session_id = sid /\ r.device_id = d)

\* no insert and no end-time update has failed so far
NoFailures ==
  /\ lost = <<>>
  /\ \A i \in 1..Len(storageLog) : storageLog[i].kind = "batch"
  /\ "updateFailed" \notin log

\* a call of addSensorData in the current state returns false and changes
\* nothing but the return value
RejectsUnchanged(data) ==
  LET r == addSensorDataCall(Cur, data)
  IN /\ r.ret.op = "addSensorData"
     /\ ~r.ret.ok
     /\ [r EXCEPT !.ret = ret] = Cur

\* C1: at most one flush is in progress at any time: no flushBuffer
\* invocation has taken a snapshot while another one that set the
\* single-flight flag has not yet cleared it, and the flag is set exactly
\* while a flush is in progress.
C1_SingleFlight ==
  /\ Len(flushes) <= 1
  /\ isFlushingBuffer <=> (Len(flushes) = 1)

\* a second endSession is waiting for the flush that the first one awaits,
\* while a record that arrived in between sits in the pending buffer
C1_Witness ==
  /\ Len(flushes) = 1
  /\ flushes[1].caller # 0
  /\ \E e \in 1..EndSlots : ends[e].pc = "wait"
  /\ Len(pendingBuffer) > 0
  /\ autoFlushes > 0

\* C2: within a session the k-th accepted record of a device carries the
\* normalized timestamp (k-1) * timestampInterval, whatever raw timestamps
\* the records carried and whatever records were rejected in between.
C2_ArithmeticTimestamps ==
  \A sid \in SessionIds : \A d \in {"1", "2"} :
    \A k \in 1..Len(AcceptedOf(sid, d)) :
      AcceptedOf(sid, d)[k].timestamp = (k - 1) * timestampInterval

\* three records of a device accepted, its baseline taken from a raw
\* timestamp of 0 (Date.now()), and a record just rejected
C2_Witness ==
  /\ Len(AcceptedOf(1, "1")) = 3
  /\ AcceptedOf(1, "1")[3].timestamp = 2 * timestampInterval
  /\ firstTimestampMap["1"] = 0
  /\ ret.op = "addSensorData" /\ ~ret.ok

\* C3: a call of addSensorData for one device leaves the clock state of
\* every other device as it is, and every device's clock stands at
\* (number of its accepted records - 1) * timestampInterval whatever the
\* other device has sent.
C3_ClockFrame ==
  /\ \A data \in AnyData :
       LET r == addSensorDataCall(Cur, data)
       IN \A d \in (DOMAIN firstTimestampMap \cup DOMAIN r.firstTimestampMap
                    \cup DOMAIN lastNormalizedTimestampMap
                    \cup DOMAIN r.lastNormalizedTimestampMap) :
            d # DeviceIdOf(data.id) =>
              /\ d \in DOMAIN firstTimestampMap
              /\ d \in DOMAIN r.firstTimestampMap
              /\ r.firstTimestampMap[d] = firstTimestampMap[d]
              /\ d \in DOMAIN lastNormalizedTimestampMap
              /\ d \in DOMAIN r.lastNormalizedTimestampMap
              /\ r.lastNormalizedTimestampMap[d] = lastNormalizedTimestampMap[d]
  /\ inSession =>
       /\ DOMAIN lastNormalizedTimestampMap \subseteq {"1", "2"}
       /\ \A d \in {"1", "2"} :
            IF d \in DOMAIN lastNormalizedTimestampMap
            THEN lastNormalizedTimestampMap[d] =
                   (Len(AcceptedOf(sessionId, d)) - 1) * timestampInterval
            ELSE Len(AcceptedOf(sessionId, d)) = 0

\* records of device 1, device 2 and device 1 again were accepted in this
\* order
C3_Witness ==
  /\ Len(accepted) = 3
  /\ accepted[1].device_id = "1"
  /\ accepted[2].device_id = "2"
  /\ accepted[3].device_id = "1"
  /\ accepted[3].timestamp = timestampInterval
  /\ accepted[2].timestamp = 0

\* C4: when no session is in progress (none started yet, or endSession has
\* completed), every call of addSensorData returns false and leaves the
\* buffers, the clocks and everything else unchanged.
C4_RejectedWithoutSession ==
  ~inSession => \A data \in AnyData : RejectsUnchanged(data)

\* a record was rejected after a session that stored records had ended
C4_Witness ==
  /\ ~inSession
  /\ nextSessionId > 1
  /\ Len(stored) > 0
  /\ ret.op = "addSensorData" /\ ~ret.ok

\* C5 (the claim as stated): while an endSession call is in progress every
\* call of addSensorData returns false and changes no state.
C5_RejectedWhileStopping ==
  ActiveEnds(Cur) # {} => \A data \in AnyData : RejectsUnchanged(data)

\* C6: during a session, a record with fewer than 15 fields is rejected and
\* leaves the buffers, the device's clock and the counter unchanged.
C6_ShortRecordRejected ==
  inSession =>
    \A data \in AnyData : data.length < RequiredFields => RejectsUnchanged(data)

\* a short record of the expected device was rejected while records were
\* buffered
C6_Witness ==
  /\ inSession
  /\ ret.op = "addSensorData" /\ ret.err = "Invalid data format"
  /\ Len(dataBuffer) > 0
  /\ MapHas(lastNormalizedTimestampMap, "1")

\* C7: during a session, a call of addSensorData with a record of a device
\* that is not expected returns false without an error: the call puts
\* nothing in a buffer and leaves the clock maps, and everything else, as
\* they were, so it creates no clock state for the device.
C7_UnexpectedDeviceRejected ==
  inSession =>
    \A data \in AnyData :
      ~Includes(expectedDeviceIds, DeviceIdOf(data.id)) =>
        LET r == addSensorDataCall(Cur, data)
        IN /\ RejectsUnchanged(data)
           /\ r.ret.err = "unexpected device"
           /\ r.firstTimestampMap = firstTimestampMap
           /\ r.lastNormalizedTimestampMap = lastNormalizedTimestampMap

\* a record of an unexpected device was rejected in a session that expects
\* another device
C7_Witness ==
  /\ inSession
  /\ Len(expectedDeviceIds) > 0
  /\ ret.op = "addSensorData" /\ ret.err = "unexpected device"
  /\ Len(accepted) > 0

\* the conditions of the scenario of C8: the first session of the
\* controller, storage succeeding, the time trigger never due, no wait of
\* endSession timed out
C8_Scenario ==
  /\ nextSessionId = 2
  /\ NoFailures
  /\ now = 0
  /\ log = {}

\* C8: with storage succeeding and the time trigger not due, bufferSize + k
\* records (0 < k < bufferSize) start exactly one automatic flush, at the
\* bufferSize-th record and with the first bufferSize records as snapshot;
\* when it has completed those records are stored and the other k are in
\* the active buffer; an endSession called after them stores the k records
\* and leaves the buffers empty.
C8_OneAutomaticFlush ==
  /\ (C8_Scenario /\ inSession /\ ActiveEnds(Cur) = {}) =>
       /\ Len(accepted) < bufferSize =>
            autoFlushes = 0 /\ dataBuffer = accepted /\ storageLog = <<>>
       /\ (bufferSize <= Len(accepted) /\ Len(accepted) < 2 * bufferSize) =>
            /\ autoFlushes = 1
            /\ IF flushes # <<>>
               THEN /\ flushes[1].dataToFlush = SubSeq(accepted, 1, bufferSize)
                    /\ flushes[1].caller = 0
                    /\ dataBuffer = <<>>
                    /\ pendingBuffer = SubSeq(accepted, bufferSize + 1, Len(accepted))
               ELSE /\ stored = SubSeq(accepted, 1, bufferSize)
                    /\ dataBuffer = SubSeq(accepted, bufferSize + 1, Len(accepted))
                    /\ pendingBuffer = <<>>
  /\ (C8_Scenario /\ ret.op = "endSession" /\ ret.id # NULL
        /\ acceptedAtEnd = Len(accepted)
        /\ bufferSize < Len(accepted) /\ Len(accepted) < 2 * bufferSize) =>
       /\ autoFlushes = 1
       /\ stored = accepted
       /\ dataBuffer = <<>> /\ pendingBuffer = <<>>

\* endSession has returned after bufferSize + 1 records, one automatic
\* flush and no failure
C8_Witness ==
  /\ C8_Scenario
  /\ ret.op = "endSession" /\ ret.id # NULL
  /\ acceptedAtEnd = Len(accepted)
  /\ Len(accepted) = bufferSize + 1
  /\ autoFlushes = 1
  /\ Len(storageLog) = 2
  /\ stored = accepted

\* C9: given no storage or metadata failure, both buffers are empty when
\* endSession completes.
C9_BuffersEmptyAfterEnd ==
  (ret.op = "endSession" /\ NoFailures) =>
    dataBuffer = <<>> /\ pendingBuffer = <<>>

\* endSession has returned the session id after a drain that stored
\* records, without failures
C9_Witness ==
  /\ ret.op = "endSession" /\ ret.id # NULL
  /\ NoFailures
  /\ Len(stored) > 0
  /\ stored = accepted

\* C10: whatever failed during endSession, when it returns the controller
\* is idle: not recording, no session id, both buffers empty, no clock
\* state, no expected device; so the guard of startSession lets a later
\* call pass.  (No path of endSession throws.)
C10_IdleAfterEnd ==
  ret.op = "endSession" =>
    /\ ~isRecording
    /\ sessionId = NULL
    /\ dataBuffer = <<>> /\ pendingBuffer = <<>>
    /\ firstTimestampMap = EmptyMap
    /\ lastNormalizedTimestampMap = EmptyMap
    /\ expectedDeviceIds = <<>>
    /\ totalPointsReceived = 0
    /\ ~inSession

\* endSession has returned after a wait that timed out, records left over
\* after the flush loop, a failed single insert and a failed update
C10_Witness ==
  /\ ret.op = "endSession" /\ ret.id # NULL
  /\ log = {"flushTimeout", "dataLoss", "updateFailed"}
  /\ Len(lost) > 0

\* the number of records stored by the storage calls first..last of the log
RECURSIVE StoredBy(_, _)
StoredBy(first, last) ==
  IF last < first THEN 0
  ELSE StoredBy(first, last - 1)
         + (IF storageLog[last].ok = "ok" THEN Len(storageLog[last].records) ELSE 0)

\* C11: when the batch insert of a chunk fails, every record of the chunk
\* is submitted to the single-record insert exactly once and in chunk order;
\* records of a chunk whose batch insert succeeded are never submitted
\* singly; the success count of a flush is the number of records its batch
\* and single inserts stored.
C11_FallbackOncePerRecord ==
  /\ \A i \in 1..Len(storageLog) :
       LET c == storageLog[i]
           n == Len(c.records)
       IN /\ c.kind = "single" =>
               \E b \in 1..(i - 1) :
                 /\ storageLog[b].kind = "batch"
                 /\ storageLog[b].ok = "failed"
                 /\ \A j \in (b + 1)..i : storageLog[j].kind = "single"
                 /\ i - b <= Len(storageLog[b].records)
                 /\ c.records = <<storageLog[b].records[i - b]>>
          /\ (c.kind = "batch" /\ c.ok = "ok" /\ i < Len(storageLog)) =>
               storageLog[i + 1].kind = "batch"
          /\ (c.kind = "batch" /\ c.ok = "failed") =>
               \/ /\ i + n <= Len(storageLog)
                  /\ \A j \in 1..n : storageLog[i + j].kind = "single"
               \/ \E k \in DOMAIN flushes :
                    /\ flushes[k].phase = "single"
                    /\ flushes[k].call = Len(storageLog)
                    /\ flushes[k].record = Len(storageLog) - i
  /\ flushReport.totalSuccess = StoredBy(flushReport.first, flushReport.last)
  /\ flushReport.totalSuccess <= flushReport.total
  /\ \A k \in DOMAIN flushes :
       flushes[k].totalSuccess = StoredBy(flushes[k].first, Len(storageLog))

\* a flush of three records has completed: the first chunk's batch insert
\* failed, one of its two records was stored singly and the other lost,
\* and the second chunk's batch insert succeeded
C11_Witness ==
  /\ flushes = <<>>
  /\ flushReport.total = 3
  /\ flushReport.totalSuccess = 2
  /\ Len(lost) = 1
  /\ storageLog[flushReport.first].ok = "failed"
  /\ storageLog[flushReport.last].kind = "batch"
  /\ storageLog[flushReport.last].ok = "ok"

AccountedFor(r) ==
  \/ Includes(stored, r)
  \/ Includes(lost, r)
  \/ Includes(dataBuffer, r)
  \/ Includes(pendingBuffer, r)
  \/ \E k \in DOMAIN flushes : Includes(flushes[k].dataToFlush, r)
  \/ "dataLoss" \in log

\* C13 (the claim as stated): no accepted record is discarded silently:
\* every record for which addSensorData returned true is stored, still
\* buffered or being flushed, or covered by a logged failure.
C13_NoSilentDiscard ==
  \A i \in 1..Len(accepted) : AccountedFor(accepted[i])

\* the storage calls of a kind that carry the record
CallsWith(kind, r) ==
  {j \in 1..Len(storageLog) :
     storageLog[j].kind = kind /\ Includes(storageLog[j].records, r)}

\* C14: a record that failed its chunk's batch insert and its own single
\* insert is never put back in the active or pending buffer and is never
\* submitted to storage again: it was in one batch call and one single call,
\* it is not stored, and only the flush that lost it may still hold it in
\* its snapshot.
C14_LostNotRequeued ==
  \A i \in 1..Len(lost) :
    LET r == lost[i]
    IN /\ ~Includes(dataBuffer, r)
       /\ ~Includes(pendingBuffer, r)
       /\ ~Includes(stored, r)
       /\ Cardinality(CallsWith("batch", r)) = 1
       /\ Cardinality(CallsWith("single", r)) = 1
       /\ \A j \in CallsWith("single", r) : storageLog[j].ok = "failed"
       /\ \A k \in DOMAIN flushes :
            Includes(flushes[k].dataToFlush, r) =>
              \A j \in CallsWith("batch", r) : j >= flushes[k].first

\* a record was lost, later records were flushed and stored by another
\* flush, and endSession has drained and returned
C14_Witness ==
  /\ Len(lost) = 1
  /\ ret.op = "endSession" /\ ret.id # NULL
  /\ Len(stored) > 0
  /\ \A j \in CallsWith("single", lost[1]) : j < flushReport.first
  /\ "dataLoss" \notin log

\* C15: while a session is in progress (recording, or endSession still
\* draining) a call of startSession fails with 'Session already in
\* progress': it issues no createSession and leaves the session id, the
\* buffers, the clocks, the expected devices and everything else unchanged.
C15_StartRejectedInSession ==
  isRecording =>
    \A mappings \in {<<>>, OneDevice, TwoDevices} :
      LET r == startSessionCall(Cur, mappings)
      IN /\ r.ret = Returned("startSession", FALSE, NULL,
                             "Session already in progress")
         /\ r.starts = starts
         /\ r.nextSessionId = nextSessionId
         /\ [r EXCEPT !.ret = ret] = Cur

\* startSession was rejected while endSession was draining a session with
\* a flush in progress
C15_Witness ==
  /\ ret = Returned("startSession", FALSE, NULL, "Session already in progress")
  /\ ActiveEnds(Cur) # {}
  /\ flushes # <<>>
  /\ sessionId # NULL

\* the step in which a startSession awaiting createSession ends without a
\* session: createSession has thrown
CreateSessionFailed ==
  \E k \in DOMAIN starts :
    /\ starts[k].pc = "createSession"
    /\ starts' = RemoveAt(starts, k)

\* C16: when createSession fails, startSession raises the error to its
\* caller and the controller stays idle: not recording, no session id, no
\* session created, buffers, clocks and expected devices untouched, and a
\* call of addSensorData made next returns false and changes nothing.
C16_FailedStartStaysIdle ==
  [][CreateSessionFailed =>
       /\ ret' = Returned("startSession", FALSE, NULL, "Failed to start session")
       /\ ~isRecording' /\ sessionId' = NULL
       /\ UNCHANGED <<isRecording, sessionId, playerId, dataBuffer,
                      pendingBuffer, isFlushingBuffer, lastFlushTime,
                      totalPointsReceived, firstTimestampMap,
                      lastNormalizedTimestampMap, expectedDeviceIds,
                      nextSessionId, flushes, storageLog, stored, inSession>>
       /\ \A data \in AnyData : RejectsUnchanged(data)']_vars

\* startSession has failed before any session was created
C16_Witness ==
  /\ ret = Returned("startSession", FALSE, NULL, "Failed to start session")
  /\ nextSessionId = 1
  /\ starts = <<>>
  /\ ~isRecording

\* C17: endSession called when no session is in progress returns the empty
\* identifier without an error, issues no storage insert and no metadata
\* update, awaits nothing, and leaves the controller idle with both buffers
\* empty.
C17_EndWithoutSession ==
  NoSessionInProgress(Cur) =>
    LET r == endSessionCall(Cur)
    IN /\ r.ret = Returned("endSession", TRUE, NULL, "")
       /\ r.storageLog = storageLog
       /\ r.flushes = flushes
       /\ r.updateIssued = updateIssued
       /\ r.ends = ends
       /\ r.stored = stored
       /\ ~r.isRecording /\ r.sessionId = NULL
       /\ r.dataBuffer = <<>> /\ r.pendingBuffer = <<>>
       /\ r.expectedDeviceIds = <<>>

\* endSession was called with no session in progress, after a session had
\* ended, while a background flush was still running
C17_Witness ==
  /\ ret = Returned("endSession", TRUE, NULL, "")
  /\ nextSessionId > 1
  /\ ActiveEnds(Cur) = {}
  /\ flushes # <<>>
  /\ updateIssued = {1}

\* C18 (the claim as stated): every endSession call that started while a
\* session was in progress returns the identifier of that session, also
\* when it overlapped another endSession call.
C18_EndReturnsSessionId ==
  [][\A e \in 1..EndSlots :
       (ends[e].pc = "update" /\ ends'[e].pc = "idle") =>
         ret' = Returned("endSession", TRUE, ends[e].sessionId, "")]_vars

\* the records of the storage call issued in this step, if one is issued
NewlySubmitted ==
  IF Len(storageLog') > Len(storageLog)
  THEN {storageLog'[Len(storageLog')].records[i] :
          i \in 1..Len(storageLog'[Len(storageLog')].records)}
  ELSE {}

\* C19 (the claim as stated): no record of a session is submitted to
\* storage after endSession has issued the end-time update of that session.
C19_NoInsertAfterEndTime ==
  [][\A r \in NewlySubmitted : r.session_id \notin updateIssued]_vars

\* C19, restricted to the controller's first session: a record submitted
\* after the end-time update of its session was accepted after endSession
\* was called, or the wait of endSession for the flush in progress had
\* timed out.
C19_InsertAfterEndTimeCauses ==
  [][\A r \in NewlySubmitted :
       (nextSessionId = 2 /\ r.session_id \in updateIssued) =>
         \/ r.uid > acceptedAtEnd
         \/ "flushTimeout" \in log]_vars

\* the step in which an endSession call returns after its updateSession
\* has failed
UpdateSessionFailed ==
  /\ \E e \in 1..EndSlots : ends[e].pc = "update" /\ ends'[e].pc = "idle"
  /\ "updateFailed" \notin log
  /\ "updateFailed" \in log'

\* C20 (the claim as stated): a failure of the end-time update is surfaced
\* to the caller of endSession as an error, raised after the state has been
\* reset.
C20_UpdateFailureRaised ==
  [][UpdateSessionFailed =>
       /\ ret'.op = "endSession"
       /\ ~ret'.ok
       /\ ~isRecording' /\ sessionId' = NULL]_vars

\* C21: endSession always terminates provided the calls it awaits return:
\* it polls the flag at most maxWaitAttempts times, makes at most
\* maxFlushAttempts flush attempts, and every invocation in progress
\* eventually returns, also when a background flush never clears the flag
\* and when every insert fails.
C21_EndTerminates ==
  /\ [](\A e \in 1..EndSlots :
          /\ ends[e].waitAttempts <= maxWaitAttempts
          /\ ends[e].attempt <= maxFlushAttempts)
  /\ \A e \in 1..EndSlots : (ends[e].pc # "idle") ~> (ends[e].pc = "idle")

\* endSession has returned although the wait for the background flush
\* timed out and that flush still holds the flag, with records left over
C21_Witness ==
  /\ ret.op = "endSession" /\ ret.id # NULL
  /\ log = {"flushTimeout", "dataLoss"}
  /\ isFlushingBuffer
  /\ flushes # <<>>
  /\ flushes[1].caller = 0

\* a step in which a call of addSensorData takes a record in
IngestAccepts == Len(accepted') = Len(accepted) + 1

\* the flushes that set the flag in this step: their first storage call is
\* not in the log before the step
StartedFlushes ==
  {k \in DOMAIN flushes' : flushes'[k].first > Len(storageLog)}

\* C22: an ingest starts an automatic flush exactly when its record was
\* appended to the active buffer (no flush in progress) and afterwards the
\* active buffer holds at least bufferSize records or at least
\* flushInterval has elapsed since lastFlushTime; an ingest that appends to
\* the pending buffer starts no flush; every other flush is started by the
\* flush loop of an endSession invocation.
C22_FlushOrigins ==
  [][/\ IngestAccepts =>
          LET rec == accepted'[Len(accepted')]
              due == \/ Len(dataBuffer) + 1 >= bufferSize
                     \/ now - lastFlushTime >= flushInterval
          IN /\ (StartedFlushes # {}) <=> (~isFlushingBuffer /\ due)
             /\ \A k \in StartedFlushes :
                  /\ flushes'[k].caller = 0
                  /\ flushes'[k].dataToFlush = Append(dataBuffer, rec)
             /\ isFlushingBuffer =>
                  /\ pendingBuffer' = Append(pendingBuffer, rec)
                  /\ StartedFlushes = {}
      /\ \A k \in StartedFlushes :
            IF flushes'[k].caller = 0
            THEN IngestAccepts
            ELSE /\ ~IngestAccepts
                 /\ ends'[flushes'[k].caller].pc = "flush"
                 /\ ends'[flushes'[k].caller].attempt >= 1
      /\ Cardinality(StartedFlushes) <= 1]_vars

\* an ingest has just started a flush on the time trigger, with fewer than
\* bufferSize records in the active buffer
C22_Witness ==
  /\ ret.op = "addSensorData" /\ ret.ok
  /\ Len(flushes) = 1 /\ flushes[1].caller = 0
  /\ flushes[1].first = Len(storageLog)
  /\ storageLog[Len(storageLog)].ok = "pending"
  /\ Len(flushes[1].dataToFlush) < bufferSize
  /\ now - lastFlushTime >= flushInterval
  /\ dataBuffer = <<>>

\* C23: while a flush is in progress an accepted ingest appends its record
\* to the pending buffer only: the active buffer, the snapshots in flight
\* and the storage calls are unchanged, and the call returns true in the
\* same step, without waiting for the flush.
C23_IngestDuringFlush ==
  [][(IngestAccepts /\ isFlushingBuffer) =>
       /\ pendingBuffer' = Append(pendingBuffer, accepted'[Len(accepted')])
       /\ dataBuffer' = dataBuffer
       /\ flushes' = flushes
       /\ storageLog' = storageLog
       /\ stored' = stored
       /\ isFlushingBuffer'
       /\ ret'.op = "addSensorData" /\ ret'.ok]_vars

\* a record was taken in during a flush: it is the only pending record and
\* the snapshot in flight holds the records before it
C23_Witness ==
  /\ ret.op = "addSensorData" /\ ret.ok
  /\ isFlushingBuffer
  /\ Len(flushes) = 1
  /\ Len(pendingBuffer) = 1
  /\ pendingBuffer[1].uid = Len(accepted)
  /\ dataBuffer = <<>>
  /\ \A i \in 1..Len(flushes[1].dataToFlush) :
        flushes[1].dataToFlush[i].uid < pendingBuffer[1].uid

\* the flushes that complete in this step
FinishedFlushes ==
  {k \in DOMAIN flushes :
     \A j \in DOMAIN flushes' : flushes'[j].first # flushes[k].first}

\* C24: every flush that sets the flag clears it once its storage calls
\* have returned, whether they succeeded or failed; in the step that
\* completes a flush all pending records go to the tail of the active
\* buffer in arrival order and the pending buffer becomes empty (when that
\* step is also the next attempt of the flush loop of endSession, the
\* active buffer so formed is the snapshot of the new flush).
C24_FlushCompletes ==
  /\ [](isFlushingBuffer <=> flushes # <<>>)
  /\ isFlushingBuffer ~> ~isFlushingBuffer
  /\ [][FinishedFlushes # {} =>
          /\ pendingBuffer' = <<>>
          /\ IF StartedFlushes = {}
             THEN /\ dataBuffer' = dataBuffer \o pendingBuffer
                  /\ ~isFlushingBuffer'
             ELSE /\ dataBuffer' = <<>>
                  /\ \A k \in StartedFlushes :
                       flushes'[k].dataToFlush = dataBuffer \o pendingBuffer]_vars

\* a flush with a failed insert has completed and the two records that
\* arrived during it are in the active buffer, in arrival order
C24_Witness ==
  /\ ~isFlushingBuffer /\ flushes = <<>>
  /\ lost # <<>>
  /\ flushReport.last = Len(storageLog)
  /\ pendingBuffer = <<>>
  /\ Len(dataBuffer) = 2
  /\ dataBuffer[1].uid = flushReport.total + 1
  /\ dataBuffer[2].uid = flushReport.total + 2

\* the records carried by the batch calls first..last of the log, in the
\* order of their submission
RECURSIVE BatchSubmitted(_, _)
BatchSubmitted(first, last) ==
  IF last < first THEN <<>>
  ELSE BatchSubmitted(first, last - 1)
         \o (IF storageLog[last].kind = "batch"
             THEN storageLog[last].records ELSE <<>>)

\* the records of a sequence are in acceptance order
InAcceptanceOrder(seq) ==
  \A i, j \in 1..Len(seq) : i < j => seq[i].uid < seq[j].uid

\* in a sequence of records the normalized timestamps of each device of
\* each session are strictly increasing
ClockOrdered(seq) ==
  \A i, j \in 1..Len(seq) :
    (i < j /\ seq[i].session_id = seq[j].session_id
           /\ seq[i].device_id = seq[j].device_id) =>
      seq[i].timestamp < seq[j].timestamp

\* C25: records are submitted to storage in acceptance order.  The batch
\* calls of a flush carry its snapshot, in snapshot order; over the whole
\* log the records of the batch calls, and the records stored, are in
\* acceptance order, and for each device of a session their normalized
\* timestamps are strictly increasing.
C25_SubmittedInOrder ==
  /\ \A k \in DOMAIN flushes :
       LET sub == BatchSubmitted(flushes[k].first, Len(storageLog))
       IN /\ Len(sub) <= Len(flushes[k].dataToFlush)
          /\ sub = SubSeq(flushes[k].dataToFlush, 1, Len(sub))
  /\ Len(BatchSubmitted(flushReport.first, flushReport.last)) = flushReport.total
  /\ InAcceptanceOrder(BatchSubmitted(1, Len(storageLog)))
  /\ InAcceptanceOrder(stored)
  /\ ClockOrdered(accepted)
  /\ ClockOrdered(BatchSubmitted(1, Len(storageLog)))
  /\ ClockOrdered(stored)

\* three records of two devices, interleaved, have been stored by two
\* flushes, one of them through the single-record fallback
C25_Witness ==
  /\ Len(stored) = 3
  /\ stored[1].device_id # stored[2].device_id
  /\ stored[3].device_id = stored[1].device_id
  /\ stored[3].timestamp > stored[1].timestamp
  /\ Len(BatchSubmitted(1, Len(storageLog))) = 3
  /\ \E i \in 1..Len(storageLog) : storageLog[i].kind = "single"
  /\ flushes = <<>>

\* C26 (the claim as stated): whenever the single-flight flag is set the
\* active buffer is empty.
C26_ActiveEmptyWhileFlushing ==
  isFlushingBuffer => dataBuffer = <<>>

\* the active buffer holds records while the flag is set only after the
\* wait loop of an endSession invocation has timed out
C26_NonEmptyOnlyAfterTimeout ==
  (isFlushingBuffer /\ dataBuffer # <<>>) => "flushTimeout" \in log

\* a step in which the flush loop of an endSession invocation runs while a
\* background flush holds the flag: the wait loop has timed out and
\* flushBuffer is called in every attempt
TurnedAway(e) ==
  /\ isFlushingBuffer
  /\ ends[e].pc = "wait"
  /\ ends'[e].pc = "update"
  /\ ends'[e].attempt > 0

\* C27: flushBuffer called while a flush is in progress returns false (not
\* attempted) at once, issues no storage call and leaves the active buffer,
\* the pending buffer, the flag and lastFlushTime unchanged: so it is for a
\* call in any state with the flag set, and so it is in the flush loop of
\* endSession after a timed-out wait, whose attempts change nothing after
\* the consolidation of the pending records.
C27_FlushTurnedAway ==
  /\ [](isFlushingBuffer =>
          \A caller \in 0..EndSlots :
            flushBuffer(Cur, caller)
              = [state |-> Cur, suspended |-> FALSE, value |-> FALSE])
  /\ [][\A e \in 1..EndSlots :
          TurnedAway(e) =>
            /\ ends'[e].attempt = maxFlushAttempts
            /\ storageLog' = storageLog
            /\ flushes' = flushes
            /\ stored' = stored
            /\ isFlushingBuffer'
            /\ lastFlushTime' = lastFlushTime
            /\ dataBuffer' = consolidatePending(Cur).dataBuffer
            /\ pendingBuffer' = <<>>]_vars

\* the flush loop of endSession has made all its attempts against a
\* background flush that still holds the flag, at a time later than the
\* last completed flush
C27_Witness ==
  /\ \E e \in 1..EndSlots :
       ends[e].pc = "update" /\ ends[e].attempt = maxFlushAttempts
  /\ log = {"flushTimeout", "dataLoss"}
  /\ isFlushingBuffer
  /\ Len(flushes) = 1 /\ flushes[1].caller = 0
  /\ storageLog[Len(storageLog)].ok = "pending"
  /\ dataBuffer # <<>>
  /\ now > lastFlushTime

C28_PendingOnlyWhileFlushing ==
  pendingBuffer # <<>> => isFlushingBuffer

\* the concatenation of the chunks first..last of a sequence of chunks
RECURSIVE Flatten(_, _, _)
Flatten(chunks, first, last) ==
  IF last < first THEN <<>>
  ELSE Flatten(chunks, first, last - 1) \o chunks[last]

\* the record sequences of the batch calls first..last of the log, in order
RECURSIVE BatchChunks(_, _)
BatchChunks(first, last) ==
  IF last < first THEN <<>>
  ELSE BatchChunks(first, last - 1)
         \o (IF storageLog[last].kind = "batch"
             THEN <<storageLog[last].records>> ELSE <<>>)

\* chunks is a split of the snapshot into ceil(n / size) consecutive chunks
\* in snapshot order, each of size records except possibly the last, which
\* has between 1 and size records; the chunks put end to end are the
\* snapshot, so that every record of it is in exactly one chunk
SplitBy(snapshot, chunks, size) ==
  LET n == Len(snapshot)
  IN /\ Len(chunks) * size >= n
     /\ (Len(chunks) - 1) * size < n \/ (n = 0 /\ Len(chunks) = 0)
     /\ \A c \in 1..Len(chunks) :
          /\ c < Len(chunks) => Len(chunks[c]) = size
          /\ Len(chunks[c]) >= 1 /\ Len(chunks[c]) <= size
     /\ Flatten(chunks, 1, Len(chunks)) = snapshot

\* C29: a flush splits its snapshot of n records into ceil(n / chunkSize)
\* consecutive chunks in snapshot order, each of chunkSize records except
\* possibly the last (1 to chunkSize), every record being in exactly one
\* chunk and in exactly one batch-insert call; with the chunk size written
\* in the code, 10, the slicing loop does so for every snapshot of up to
\* two full chunks and one record.
C29_ChunksSplitSnapshot ==
  /\ \A n \in 0..(2 * declaredChunkSize + 1) :
       SplitBy(SensorRecords(1, n),
               sliceFrom(SensorRecords(1, n), declaredChunkSize, 0),
               declaredChunkSize)
  /\ \A k \in DOMAIN flushes :
       LET t == flushes[k]
           chunks == sliceFrom(t.dataToFlush, chunkSize, 0)
       IN /\ SplitBy(t.dataToFlush, chunks, chunkSize)
          /\ Chunks(t.dataToFlush) = chunks
          /\ BatchChunks(t.first, Len(storageLog)) = SubSeq(chunks, 1, t.chunk)
  /\ LET calls == BatchChunks(flushReport.first, flushReport.last)
     IN /\ Len(calls) * chunkSize >= flushReport.total
        /\ (Len(calls) - 1) * chunkSize < flushReport.total
              \/ flushReport.total = 0
        /\ Len(Flatten(calls, 1, Len(calls))) = flushReport.total
        /\ InAcceptanceOrder(Flatten(calls, 1, Len(calls)))

\* a flush of MaxBuffered records has completed with more than one batch
\* call, the last one carrying fewer records than the others
C29_Witness ==
  /\ flushes = <<>>
  /\ flushReport.total = MaxBuffered
  /\ Len(BatchChunks(flushReport.first, flushReport.last)) > 1
  /\ Len(storageLog[flushReport.last].records) < chunkSize
  /\ storageLog[flushReport.last].kind = "batch"
  /\ Len(storageLog[flushReport.first].records) = chunkSize

\* the step in which startSession, createSession having returned, adopts
\* the new session and resets the controller
StartTakesEffect == sessionId' # NULL /\ sessionId' # sessionId

\* in every session the first record accepted from a device has the
\* normalized timestamp 0
FirstRecordAtZero ==
  \A sid \in 1..(nextSessionId - 1), d \in {"1", "2"} :
    AcceptedOf(sid, d) # <<>> => AcceptedOf(sid, d)[1].timestamp = 0

\* what startSession resets and sets, the pending buffer left aside
StartResetsRest ==
  StartTakesEffect =>
    /\ dataBuffer' = <<>>
    /\ firstTimestampMap' = EmptyMap
    /\ lastNormalizedTimestampMap' = EmptyMap
    /\ \E k \in DOMAIN starts :
         expectedDeviceIds' = DeviceIdsOf(starts[k].mappings)
    /\ isRecording'

\* C30 (the claim as stated): when startSession succeeds the active and
\* the pending buffer are empty, no device has clock state, the expected
\* devices are those of the mappings and the controller is recording; also
\* on a controller used again after endSession the first record accepted
\* from each device in the new session gets timestamp 0.
C30_StartResets ==
  /\ [][StartResetsRest /\ (StartTakesEffect => pendingBuffer' = <<>>)]_vars
  /\ []FirstRecordAtZero

\* the claim without the pending buffer: startSession empties the active
\* buffer and the clock maps, sets the expected devices and the recording
\* flag, and the first record of each device in each session is at 0
C30_StartResetsButPending ==
  /\ [][StartResetsRest]_vars
  /\ []FirstRecordAtZero

\* a second session is recording and has accepted a record, at timestamp 0,
\* after a first session in which records were accepted
C30_SecondSessionRecords ==
  /\ nextSessionId = 3 /\ sessionId = 2 /\ isRecording
  /\ Len(AcceptedOf(1, "1")) > 1
  /\ AcceptedOf(2, "1") # <<>>

\* no batch insert and no single-record insert has failed so far
NoStorageFailures ==
  /\ lost = <<>>
  /\ \A i \in 1..Len(storageLog) :
       storageLog[i].kind = "batch" /\ storageLog[i].ok # "failed"

\* C31: given no storage failure and no wait of endSession that timed out,
\* when endSession returns the id of the session every record of that
\* session for which addSensorData had returned true before endSession was
\* called is in storage.
C31_PersistedAtEnd ==
  (ret.op = "endSession" /\ ret.id # NULL
     /\ NoStorageFailures /\ "flushTimeout" \notin log) =>
    \A i \in 1..acceptedAtEnd :
      accepted[i].session_id = ret.id => Includes(stored, accepted[i])

\* endSession was called with one record in a flush in flight, one pending
\* and none stored; it waited, drained and returned with all of them stored
C31_Witness ==
  /\ ret.op = "endSession" /\ ret.id = 1
  /\ NoStorageFailures /\ log = {}
  /\ acceptedAtEnd = MaxAccepted
  /\ autoFlushes = 1
  /\ Len(storageLog) >= 2
  /\ storageLog[1].records # <<>>
  /\ Len(storageLog[1].records) < acceptedAtEnd
  /\ stored = accepted

\* the records of a sequence that carry the id of the session in progress
OfSession(seq) == SelectSeq(seq, LAMBDA r : r.session_id = sessionId)

\* the records of the snapshots in flight whose insert has not yet succeeded
\* or failed for good
RECURSIVE Unresolved(_)
Unresolved(k) ==
  IF k = 0 THEN <<>>
  ELSE Unresolved(k - 1)
         \o SelectSeq(flushes[k].dataToFlush,
                      LAMBDA r : ~Includes(stored, r) /\ ~Includes(lost, r))

\* a session is in progress: startSession has adopted it and no endSession
\* has reset the controller since
BetweenStartAndReset == isRecording /\ sessionId # NULL

\* C32 (the claim as stated): while a session is in progress the number of
\* accepted records, totalPointsReceived, is the number of records in the
\* active buffer, in the pending buffer and in the unresolved part of a
\* snapshot in flight, plus the records of the session persisted, plus
\* those that failed both the batch and the single-record insert.
C32_Conservation ==
  BetweenStartAndReset =>
    totalPointsReceived =
      Len(dataBuffer) + Len(pendingBuffer) + Len(Unresolved(Len(flushes)))
        + Len(OfSession(stored)) + Len(OfSession(lost))

\* the same count over the records that carry the id of the session in
\* progress only
C32_ConservationOfSession ==
  BetweenStartAndReset =>
    totalPointsReceived =
      Len(OfSession(dataBuffer)) + Len(OfSession(pendingBuffer))
        + Len(OfSession(Unresolved(Len(flushes))))
        + Len(OfSession(stored)) + Len(OfSession(lost))

\* a session in progress with one record stored by the fallback, one in
\* the snapshot in flight waiting for its single insert, and one pending
C32_AllTermsCounted ==
  /\ BetweenStartAndReset
  /\ totalPointsReceived = 3
  /\ Len(OfSession(stored)) = 1
  /\ Len(Unresolved(Len(flushes))) = 1
  /\ Len(pendingBuffer) = 1
  /\ dataBuffer = <<>>

\* C33: whenever the single-flight flag is clear the pending buffer is
\* empty: a record enters the pending buffer only in a step that starts
\* with the flag set, and every step that clears the flag leaves the
\* pending buffer empty.
C33_PendingEmptyUnlessFlushing ==
  /\ [](~isFlushingBuffer => pendingBuffer = <<>>)
  /\ [][/\ Len(pendingBuffer') > Len(pendingBuffer) => isFlushingBuffer
        /\ (isFlushingBuffer /\ ~isFlushingBuffer') => pendingBuffer' = <<>>]_vars

\* a background flush has completed without failure and cleared the flag;
\* the record that was pending during it is now the only record of the
\* active buffer
C33_Witness ==
  /\ ~isFlushingBuffer
  /\ isRecording
  /\ pendingBuffer = <<>>
  /\ lost = <<>>
  /\ flushReport.total = 2 /\ flushReport.totalSuccess = 2
  /\ Len(dataBuffer) = 1
  /\ dataBuffer[1].uid = 3
  /\ stored = SubSeq(accepted, 1, 2)

\* the storage calls that carried the record and succeeded
StoredCalls(r) ==
  {j \in 1..Len(storageLog) :
     storageLog[j].ok = "ok" /\ Includes(storageLog[j].records, r)}

\* C34: no accepted record is persisted more than once, a failed batch
\* insert persisting nothing: a record is carried by at most one batch
\* call in the whole log, hence by one flush, and by at most one
\* single-record call, which follows the failure of its batch call; at
\* most one of its calls succeeded and it occurs at most once in storage.
C34_PersistedOnce ==
  \A i \in 1..Len(accepted) :
    LET r == accepted[i]
    IN /\ Cardinality(CallsWith("batch", r)) <= 1
       /\ Cardinality(CallsWith("single", r)) <= 1
       /\ \A j \in CallsWith("single", r) :
            \E b \in CallsWith("batch", r) :
              b < j /\ storageLog[b].ok = "failed"
       /\ Cardinality(StoredCalls(r)) <= 1
       /\ Len(SelectSeq(stored, LAMBDA x : x = r)) = Cardinality(StoredCalls(r))
       /\ \A k \in DOMAIN flushes :
            Includes(flushes[k].dataToFlush, r) =>
              \A j \in CallsWith("batch", r) : j >= flushes[k].first

\* all three records are in storage, two by the single-record fallback of
\* a failed batch insert and one by the batch insert of a later flush
C34_Witness ==
  /\ Len(accepted) = 3 /\ Len(stored) = 3
  /\ flushes = <<>>
  /\ storageLog[1].kind = "batch" /\ storageLog[1].ok = "failed"
  /\ Cardinality({j \in 1..Len(storageLog) :
                    storageLog[j].kind = "single" /\ storageLog[j].ok = "ok"}) = 2
  /\ storageLog[Len(storageLog)].kind = "batch"
  /\ storageLog[Len(storageLog)].ok = "ok"
  /\ Len(storageLog) = 4

\* C35 (the claim as stated): of two calls of startSession made from idle,
\* the second before createSession has returned to the first, only one
\* succeeds: no call is admitted while another is in progress, a session
\* is adopted only by a controller that is not recording, and no two calls
\* in progress have both had their session created.
C35_OneStartSucceeds ==
  /\ [][starts # <<>> => Len(starts') <= Len(starts)]_vars
  /\ [][StartTakesEffect => ~isRecording]_vars
  /\ [](\A j, k \in DOMAIN starts :
          (starts[j].pc = "addSessionPlayersBatch"
             /\ starts[k].pc = "addSessionPlayersBatch") => j = k)

\* two calls of startSession have both had their session created and the
\* first has returned the id of the session created for the second
C35_BothSucceed ==
  /\ nextSessionId = 3
  /\ sessionId = 2
  /\ ret = Returned("startSession", TRUE, 2, "")
  /\ Len(starts) = 1
  /\ starts[1].pc = "addSessionPlayersBatch"
  /\ ~(\E e \in 1..EndSlots : ends[e].pc # "idle")
  /\ updateIssued = {}

\* the record carries the id of the session in progress and the id of a
\* device that this session expects
OfCurrentSession(r) ==
  /\ r.session_id = sessionId
  /\ Includes(expectedDeviceIds, r.device_id)

\* C36 (the claim as stated): while a session is in progress every record
\* in the active or the pending buffer carries the id of that session and
\* a device id of its expected devices, so that no record taken in before
\* the session is buffered under it.
C36_BufferedForCurrentSession ==
  BetweenStartAndReset =>
    /\ \A i \in 1..Len(dataBuffer) : OfCurrentSession(dataBuffer[i])
    /\ \A i \in 1..Len(pendingBuffer) : OfCurrentSession(pendingBuffer[i])

\* the active buffer of the second session holds a record without session
\* id next to nothing else, the flush of the first session having
\* completed after the second session was adopted
C36_ForeignRecordInActive ==
  /\ BetweenStartAndReset /\ sessionId = 2
  /\ ~isFlushingBuffer
  /\ Len(dataBuffer) = 1
  /\ dataBuffer[1].session_id = NULL

Overfull == isRecording /\ ~isFlushingBuffer /\ Len(dataBuffer) >= bufferSize

Adopts == sessionId' = ExistingSession /\ sessionId # ExistingSession

\* C38: the step in which useExistingSession succeeds leaves the
\* expected-device set and the pending buffer as they were; when it
\* succeeds on a controller that records nothing (fresh, or its previous
\* session ended) the expected-device set is empty afterwards, it stays
\* empty for as long as the adopted session lasts, and every call of
\* addSensorData made during that session returns false at once, leaving
\* the buffers as they were.
C38_ExistingSessionTakesNothing ==
  /\ [][Adopts => UNCHANGED <<expectedDeviceIds, pendingBuffer>>]_vars
  /\ [][(Adopts /\ ~isRecording) => expectedDeviceIds' = <<>>]_vars
  /\ [][(sessionId = ExistingSession /\ sessionId' = ExistingSession)
          => UNCHANGED expectedDeviceIds]_vars
  /\ [][(/\ sessionId = ExistingSession /\ isRecording
          /\ expectedDeviceIds = <<>>
          /\ \E data \in ValidData \cup ForeignData :
               addSensorData(data, MaxAccepted))
          => /\ ret'.op = "addSensorData" /\ ~ret'.ok
             /\ UNCHANGED <<dataBuffer, pendingBuffer, ingests, accepted,
                             totalPointsReceived>>]_vars

\* a session was started, fed and ended, the controller then adopted the
\* existing session and has just turned an ingest away
C38_Witness ==
  /\ sessionId = ExistingSession /\ isRecording
  /\ expectedDeviceIds = <<>>
  /\ nextSessionId > 1
  /\ stored # <<>>
  /\ ret.op = "addSensorData" /\ ~ret.ok

\* the records of a sequence, as a set
RecordsOf(seq) == {seq[i] : i \in 1..Len(seq)}

\* the records that a storage call in flight or a flush in flight holds
InFlightRecords ==
  UNION ({RecordsOf(flushes[k].dataToFlush) : k \in DOMAIN flushes}
         \cup {RecordsOf(storageLog[c].records) : c \in DOMAIN storageLog})

====
